---- MODULE Spec2Model ----
(***************************************************************************)
(* Model of `gh run view` (pkg/cmd/run/view/view.go): the flag handling of *)
(* NewCmdView.RunE, the resolution and dispatch of runView, and the log    *)
(* archive parser (readRunLog) and renderer (displayRunLog).               *)
(*                                                                         *)
(* Strings the code takes apart (zip entry names, log text) are sequences  *)
(* of one-character strings, so that splitting, trimming and number        *)
(* parsing are computed as the Go library computes them.                   *)
(***************************************************************************)
EXTENDS Integers, Sequences, FiniteSets, TLC

\* ------------------------------------------------------------------ bounds
\* Largest number of entries of a run-log archive.
MaxEntries == 2

\* ------------------------------------------------------ string primitives
Max(S) == CHOOSE x \in S : \A y \in S : y <= x
Min(S) == CHOOSE x \in S : \A y \in S : x <= y

IndexesOf(s, c) == {i \in 1..Len(s) : s[i] = c}
LastIndexOf(s, c) == IF IndexesOf(s, c) = {} THEN 0 ELSE Max(IndexesOf(s, c))
FirstIndexOf(s, c) == IF IndexesOf(s, c) = {} THEN 0 ELSE Min(IndexesOf(s, c))

HasSuffix(s, suf) ==
    /\ Len(s) >= Len(suf)
    /\ SubSeq(s, Len(s) - Len(suf) + 1, Len(s)) = suf

\* strings.TrimSuffix: s without the trailing suf, s itself when it has none.
TrimSuffix(s, suf) ==
    IF HasSuffix(s, suf) THEN SubSeq(s, 1, Len(s) - Len(suf)) ELSE s

\* filepath.Split: <<dir, file>>, cut right after the final separator.
FilepathSplit(path) ==
    LET i == LastIndexOf(path, "/")
    IN  <<SubSeq(path, 1, i), SubSeq(path, i + 1, Len(path))>>

\* filepath.Ext: the suffix from the final dot of the final path element.
FilepathExt(path) ==
    LET dot == LastIndexOf(path, ".")
        sep == LastIndexOf(path, "/")
    IN  IF dot > sep THEN SubSeq(path, dot, Len(path)) ELSE << >>

\* Mutant: the string is cut at the first separator only (strings.SplitN
\* with n = 2).
StringsSplitAtFirst(s, sep) ==
    LET i == FirstIndexOf(s, sep)
    IN  IF i = 0 THEN <<s>>
        ELSE <<SubSeq(s, 1, i - 1), SubSeq(s, i + 1, Len(s))>>

\* strings.Split(s, sep): every piece between separators, empty ones included.
RECURSIVE StringsSplit(_, _)
StringsSplit(s, sep) ==
    LET i == FirstIndexOf(s, sep)
    IN  IF i = 0
        THEN <<s>>
        ELSE <<SubSeq(s, 1, i - 1)>> \o StringsSplit(SubSeq(s, i + 1, Len(s)), sep)

DigitChars == {"0", "1", "2", "3", "4", "5", "6", "7", "8", "9"}
DigitVal(c) ==
    CASE c = "0" -> 0 [] c = "1" -> 1 [] c = "2" -> 2 [] c = "3" -> 3
      [] c = "4" -> 4 [] c = "5" -> 5 [] c = "6" -> 6 [] c = "7" -> 7
      [] c = "8" -> 8 [] c = "9" -> 9

RECURSIVE DecimalValue(_)
DecimalValue(ds) ==
    IF ds = << >> THEN 0
    ELSE 10 * DecimalValue(SubSeq(ds, 1, Len(ds) - 1)) + DigitVal(ds[Len(ds)])

\* strconv.Atoi: an optional sign, then one or more decimal digits.  (Tokens
\* of the model are far shorter than the 19 digits that overflow an int.)
Atoi(s) ==
    LET signed == s # << >> /\ s[1] \in {"+", "-"}
        ds     == IF signed THEN Tail(s) ELSE s
    IN  IF ds = << >> \/ \E i \in 1..Len(ds) : ds[i] \notin DigitChars
        THEN [ok |-> FALSE, n |-> 0]
        ELSE [ok |-> TRUE,
              n  |-> IF signed /\ s[1] = "-" THEN 0 - DecimalValue(ds)
                     ELSE DecimalValue(ds)]

\* Byte values of the characters that occur in job names (sort.Strings
\* compares byte-wise).
ByteOf(c) ==
    CASE c = "-" -> 45 [] c = "." -> 46 [] c = "/" -> 47
      [] c \in DigitChars -> 48 + DigitVal(c)
      [] c = "_" -> 95 [] c = "a" -> 97 [] c = "b" -> 98
      [] OTHER -> 120

RECURSIVE StrLess(_, _)
StrLess(s, t) ==
    IF t = << >> THEN FALSE
    ELSE IF s = << >> THEN TRUE
    ELSE IF s[1] # t[1] THEN ByteOf(s[1]) < ByteOf(t[1])
    ELSE StrLess(Tail(s), Tail(t))

\* ------------------------------------------------------------ the archive
TxtExt == <<".", "t", "x", "t">>

\* Names of zip entries: step logs of two jobs, a top-level file, a file
\* that is no text log, and step-log names the parser has to judge.
EntryNames ==
    { <<"a", "/", "2", "_", "s">> \o TxtExt,
      <<"a", "/", "1", "0", "_", "t">> \o TxtExt,
      <<"b", "/", "2", "_", "s">> \o TxtExt,
      <<"a", "/", "-", "1", "_", "s">> \o TxtExt,
      <<"a", "/", "2", "_", "s", "_", "t">> \o TxtExt,
      <<"a", "/", "s">> \o TxtExt,
      <<"a", "/", "x", "_", "s">> \o TxtExt,
      <<"r">> \o TxtExt,
      <<"a", "/", "n", ".", "l", "o", "g">> }

\* Decompressed payloads: one terminated line, and a terminated line followed
\* by a final line without terminator.
Payloads ==
    { <<"y", "\n">>, <<"x", "\n", "y">> }

\* -------------------------------------------------- readRunLog (the parser)
InvalidStepFilename == "invalid step log filename"
CorruptArchive == "zip: not a valid zip file"

EmptyRunLog == [n \in {} |-> [name |-> << >>, steps |-> << >>]]

\* Mutant: the step replaces the steps of a job seen before.
AddStepOverwriting(log, jobName, st) ==
    (jobName :> [name |-> jobName, steps |-> <<st>>])
    @@ [n \in DOMAIN log \ {jobName} |-> log[n]]

\* Lines 498-502: a job seen for the first time gets a new entry holding the
\* one step, a job seen before has the step appended to its list.
AddStep(log, jobName, st) ==
    IF jobName \notin DOMAIN log
    THEN (jobName :> [name |-> jobName, steps |-> <<st>>]) @@ log
    ELSE [log EXCEPT ![jobName].steps = Append(@, st)]

\* Mutant: pieces after the second are let through.
SplitHasOrderAndName(split) == Len(split) >= 2

\* Line 476: the file name is an order and a step name, and nothing more.
SplitIsOrderAndName(split) == Len(split) = 2

\* Lines 469-504: the loop over the entries, from entry i on, with the
\* hierarchy built so far; it returns at the first name it rejects.
RECURSIVE ReadFiles(_, _, _)
ReadFiles(files, i, log) ==
    IF i > Len(files) THEN [rl |-> log, err |-> "nil"]
    ELSE
      LET zipFile == files[i]
          dir     == FilepathSplit(zipFile.name)[1]
          file    == FilepathSplit(zipFile.name)[2]
          ext     == FilepathExt(zipFile.name)
      IN  IF dir # << >> /\ ext = TxtExt
          THEN
            LET split == StringsSplit(file, "_")
            IN  IF ~SplitIsOrderAndName(split)
                THEN [rl |-> log, err |-> InvalidStepFilename]
                ELSE
                  LET jobName   == TrimSuffix(dir, <<"/">>)
                      stepName  == TrimSuffix(split[2], TxtExt)
                      stepOrder == Atoi(split[1])
                  IN  IF ~stepOrder.ok
                      THEN [rl |-> log, err |-> InvalidStepFilename]
                      ELSE ReadFiles(files, i + 1,
                                     AddStep(log, jobName,
                                             [order |-> stepOrder.n,
                                              name  |-> stepName,
                                              logs  |-> zipFile.logs]))
          ELSE ReadFiles(files, i + 1, log)

\* readRunLog: bytes that are no zip container fail in zip.NewReader.
readRunLog(rlz) ==
    IF ~rlz.valid
    THEN [rl |-> EmptyRunLog, err |-> CorruptArchive]
    ELSE ReadFiles(rlz.files, 1, EmptyRunLog)

\* ------------------------------------------------ what getRunLog delivers
\* The parser opens an entry only after it has accepted its name (line 487):
\* the payload of an entry it skips or rejects is never looked at, and is
\* left empty here.
OpensEntry(name) ==
    LET r == ReadFiles(<<[name |-> name, logs |-> << >>]>>, 1, EmptyRunLog)
    IN  r.err = "nil" /\ DOMAIN r.rl # {}

ZipEntries ==
    { [name |-> n, logs |-> p] : n \in {m \in EntryNames : OpensEntry(m)},
                                 p \in Payloads }
    \cup { [name |-> n, logs |-> << >>] : n \in {m \in EntryNames : ~OpensEntry(m)} }

SeqsUpTo(S, k) == UNION { [1..n -> S] : n \in 0..k }

\* What getRunLog can deliver: a zip container with its entries in archive
\* order, or bytes that are no zip container.
RunLogZips ==
    { [valid |-> TRUE, files |-> fs] : fs \in SeqsUpTo(ZipEntries, MaxEntries) }
    \cup { [valid |-> FALSE, files |-> << >>] }

NoZip == [valid |-> FALSE, files |-> << >>]

\* ---------------------------------------------- displayRunLog (the renderer)
\* bufio.MaxScanTokenSize: a Scanner with the default buffer stops, with its
\* error unread by the loop at line 540, at a line that does not fit.
MaxScanTokenSize == 65536

DropCR(line) ==
    IF line # << >> /\ line[Len(line)] = "\r"
    THEN SubSeq(line, 1, Len(line) - 1) ELSE line

\* Mutant: a final line without terminator is dropped.
ScanLinesTerminatedOnly(text) ==
    LET ps == StringsSplit(text, "\n")
    IN  [k \in 1..(Len(ps) - 1) |-> DropCR(ps[k])]

\* The texts scanner.Text() yields over the successful calls of scanner.Scan()
\* (bufio.ScanLines): one per "\n"-terminated line, and one for a final
\* non-empty line without terminator.
RECURSIVE ScanLines(_)
ScanLines(text) ==
    LET i == FirstIndexOf(text, "\n")
    IN  IF text = << >> THEN << >>
        ELSE IF i = 0
        THEN IF Len(text) >= MaxScanTokenSize THEN << >> ELSE <<DropCR(text)>>
        ELSE IF i > MaxScanTokenSize THEN << >>
        ELSE <<DropCR(SubSeq(text, 1, i - 1))>>
             \o ScanLines(SubSeq(text, i + 1, Len(text)))

\* Lines 538-542: what one step writes, one element per Fprintf.
StepOutput(jobName, st) ==
    LET prefix == jobName \o <<"\t">> \o st.name \o <<"\t">>
        lines  == ScanLines(st.logs)
    IN  [k \in 1..Len(lines) |-> prefix \o lines[k] \o <<"\n">>]

RECURSIVE StepsOutput(_, _)
StepsOutput(jobName, steps) ==
    IF steps = << >> THEN << >>
    ELSE StepOutput(jobName, Head(steps)) \o StepsOutput(jobName, Tail(steps))

\* sort.Strings over the keys of the map (lines 525-529).
RECURSIVE SortStrings(_)
SortStrings(S) ==
    IF S = {} THEN << >>
    ELSE LET m == CHOOSE x \in S : \A y \in S \ {x} : StrLess(x, y)
         IN  <<m>> \o SortStrings(S \ {m})

\* sort.Slice by order (lines 534-536): the slice is permuted in place into
\* ascending order; the library does not promise to keep equal elements in
\* their former order, so every ascending permutation is an outcome.
SortSliceOutcomes(steps) ==
    LET n == Len(steps)
        P == {p \in [1..n -> 1..n] :
                /\ \A i, j \in 1..n : i # j => p[i] # p[j]
                /\ \A i, j \in 1..n :
                     i < j => ~(steps[p[j]].order < steps[p[i]].order)}
    IN  {[i \in 1..n |-> steps[p[i]]] : p \in P}

\* The archives sort.Slice can leave behind: job.steps shares its array with
\* the slice that is sorted (line 533).
SortedRunLogs(log) ==
    LET All == UNION {SortSliceOutcomes(log[n].steps) : n \in DOMAIN log}
    IN  { [n \in DOMAIN log |-> [log[n] EXCEPT !.steps = f[n]]] :
            f \in {g \in [DOMAIN log -> All] :
                     \A n \in DOMAIN log : g[n] \in SortSliceOutcomes(log[n].steps)} }

RECURSIVE JobsOutput(_, _)
JobsOutput(jobNames, sortedLog) ==
    IF jobNames = << >> THEN << >>
    ELSE StepsOutput(sortedLog[Head(jobNames)].name,
                     sortedLog[Head(jobNames)].steps)
         \o JobsOutput(Tail(jobNames), sortedLog)

\* Lines 525-544: everything displayRunLog writes, given the archive as the
\* sorts left it.
RunLogOutput(sortedLog) == JobsOutput(SortStrings(DOMAIN sortedLog), sortedLog)

\* ------------------------------------------------------ runs, jobs, flags
Completed == "completed"
Failure == "failure"

\* Status and conclusion as the API pairs them: a conclusion is set once the
\* run or job has completed.
Kinds ==
    { [Status |-> "in_progress", Conclusion |-> ""],
      [Status |-> Completed, Conclusion |-> "success"],
      [Status |-> Completed, Conclusion |-> Failure] }

\* shared.IsFailureState
IsFailureState(c) == c = Failure

NoJob == [ID |-> 0, RunID |-> 0, Status |-> "", Conclusion |-> ""]
NoRun == [ID |-> 0, Status |-> "", Conclusion |-> ""]

\* Jobs the job endpoint can return for --job 456: its run is the run the
\* user named, or another one.
FetchedJobs ==
    { [ID |-> 456, RunID |-> r, Status |-> k.Status, Conclusion |-> k.Conclusion] :
        r \in {123, 124}, k \in Kinds }

\* The runs shared.GetRuns lists.
RecentRuns == <<201>>

RunIDs == {123, 124, 201}
RunOfID(id) ==
    IF \E n \in RunIDs : ToString(n) = id
    THEN CHOOSE n \in RunIDs : ToString(n) = id
    ELSE 0

\* Job lists shared.GetJobs can return for a run: none, one, two.
JobKindLists ==
    { << >>,
      << [Status |-> Completed, Conclusion |-> Failure] >>,
      << [Status |-> Completed, Conclusion |-> "success"],
         [Status |-> Completed, Conclusion |-> Failure] >>,
      << [Status |-> "in_progress", Conclusion |-> ""],
         [Status |-> Completed, Conclusion |-> "success"] >> }

JobsOfRun(r, kinds) ==
    [i \in 1..Len(kinds) |->
        [ID |-> 300 + i, RunID |-> r.ID,
         Status |-> kinds[i].Status, Conclusion |-> kinds[i].Conclusion]]

\* Plain-text job logs getJobLog can deliver.
JobLogTexts == { << >>, <<"x", "\n", "y", "\n">> }

ArtifactLists == { << >>, << [Name |-> "artifact", Expired |-> FALSE] >> }
AnnotationLists == { << >>, <<"annotation">> }

VARIABLES
    pc,             \* where the command is
    args,           \* positional arguments
    tty,            \* the terminal: CanPrompt(), IsStdoutTTY()
    opts,           \* ViewOptions
    runID, selectedJob, run, jobs,      \* locals of runView (lines 149-153)
    runs,           \* local of the prompt block (line 173)
    jobLog,         \* r, the reader getJobLog returned (line 225)
    runLogZip,      \* the reader getRunLog returned (line 253)
    rl,             \* runLog (line 259)
    prNumber, artifacts, annotations, annotationErr, jobIdx,  \* lines 277-301
    progress,       \* the progress indicator is running
    pager,          \* "idle", "started", "stopped"
    out, errOut,    \* what was written to IO.Out / IO.ErrOut, one element per write
    calls,          \* collaborator calls and output events, in order
    entered,        \* the branches of runView (lines 206, 220, 248, 267) taken
    err             \* "pending", or what the command returned ("nil": no error)

vars == <<pc, args, tty, opts, runID, selectedJob, run, jobs, runs, jobLog,
          runLogZip, rl, prNumber, artifacts, annotations, annotationErr,
          jobIdx, progress, pager, out, errOut, calls, entered, err>>

inputs   == <<args, tty>>
locals   == <<runID, selectedJob, run, jobs, runs>>
logVars  == <<jobLog, runLogZip, rl>>
repVars  == <<prNumber, artifacts, annotations, annotationErr, jobIdx>>
ioVars   == <<pager, out, errOut>>

Init ==
    /\ pc = "RunE"
    /\ args \in {<< >>, <<"123">>}
    /\ tty \in { t \in [canPrompt : BOOLEAN, stdoutTTY : BOOLEAN] :
                   t.canPrompt => t.stdoutTTY }
    /\ opts \in [RunID : {""}, JobID : {"", "456"}, ExitStatus : BOOLEAN,
                 Log : BOOLEAN, Web : BOOLEAN, Prompt : {FALSE}]
    /\ runID = ""
    /\ selectedJob = NoJob
    /\ run = NoRun
    /\ jobs = << >>
    /\ runs = << >>
    /\ jobLog = << >>
    /\ runLogZip = NoZip
    /\ rl = EmptyRunLog
    /\ prNumber = ""
    /\ artifacts = << >>
    /\ annotations = << >>
    /\ annotationErr = "nil"
    /\ jobIdx = 0
    /\ progress = FALSE
    /\ pager = "idle"
    /\ out = << >>
    /\ errOut = << >>
    /\ calls = << >>
    /\ entered = << >>
    /\ err = "pending"

\* One collaborator call or output event, with the state of the progress
\* indicator at that moment.
Event(op, arg, spin) == [op |-> op, arg |-> arg, spin |-> spin]

\* Mutant: no deferred stop, the indicator stays as the return found it.
ReturnIndicatorAsIs(e) ==
    /\ pc' = "done"
    /\ err' = e
    /\ UNCHANGED progress

\* A return of runView: the deferred StopProgressIndicator (line 155) runs.
Return(e) ==
    /\ pc' = "done"
    /\ err' = e
    /\ progress' = FALSE

SilentError == "SilentError"
MissingTarget == "run or job ID required when not running interactively"
WebAndLog == "specify only one of --web or --log"

\* -------------------------------------------------------- NewCmdView.RunE
\* Lines 99-101: neither a run ID nor a job ID, and nobody to ask.
TargetMissing(o, as, canPrompt) ==
    Len(as) = 0 /\ o.JobID = "" /\ ~canPrompt

\* Mutant: --web and --log are not checked against each other.
FlagsConflictUnchecked(o) == FALSE

\* Line 117.
FlagsConflict(o) == o.Web /\ o.Log

\* Mutant: the job ID is not looked at when deciding to prompt.
WithTargetJobIgnored(o, as, canPrompt) ==
    IF Len(as) = 0
    THEN IF canPrompt THEN [o EXCEPT !.Prompt = TRUE] ELSE o
    ELSE [o EXCEPT !.RunID = as[1]]

\* Lines 99-107: the options after the positional argument is looked at.
WithTarget(o, as, canPrompt) ==
    IF Len(as) = 0 /\ o.JobID = ""
    THEN IF canPrompt THEN [o EXCEPT !.Prompt = TRUE] ELSE o
    ELSE IF Len(as) > 0 THEN [o EXCEPT !.RunID = as[1]] ELSE o

\* Lines 109-115: a job ID makes the run ID void.
WithoutRunID(o) ==
    IF o.RunID # "" /\ o.JobID # "" THEN [o EXCEPT !.RunID = ""] ELSE o

RunE ==
    /\ pc = "RunE"
    /\ LET o1 == WithTarget(opts, args, tty.canPrompt)
           o2 == WithoutRunID(o1)
       IN  IF TargetMissing(opts, args, tty.canPrompt)
           THEN /\ pc' = "done"
                /\ err' = MissingTarget
                /\ UNCHANGED <<opts, errOut>>
           ELSE /\ opts' = o2
                /\ errOut' = IF o1.RunID # "" /\ o1.JobID # "" /\ tty.canPrompt
                             THEN Append(errOut, <<"both run and job IDs specified; ignoring run ID">>)
                             ELSE errOut
                /\ IF FlagsConflict(o2)
                   THEN pc' = "done" /\ err' = WebAndLog
                   ELSE pc' = "runView" /\ err' = err
    /\ UNCHANGED <<inputs, locals, logVars, repVars, progress, pager, out,
                   calls, entered>>

\* ----------------------------------------------------------------- runView
\* Where runView goes after line 166.
AfterJob(o) == IF o.Prompt THEN "GetRuns" ELSE "GetRun"

\* Lines 138-155: the HTTP client and the base repository.
Setup ==
    /\ pc = "runView"
    /\ \E e \in {"nil", "failed to create http client", "failed to determine base repo"} :
         IF e # "nil"
         THEN /\ pc' = "done" /\ err' = e
              /\ UNCHANGED runID
         ELSE /\ runID' = opts.RunID
              /\ pc' = IF opts.JobID # "" THEN "getJob" ELSE AfterJob(opts)
              /\ err' = err
    /\ UNCHANGED <<inputs, opts, selectedJob, run, jobs, runs, logVars, repVars,
                   progress, ioVars, calls, entered>>

\* Mutant: the run ID stays what the options gave.
RunIDOfJobAsGiven(j, given) == given

\* Line 165: the run ID taken from the fetched job.
RunIDOfJob(j, given) == ToString(j.RunID)

\* Lines 157-166.
GetJob ==
    /\ pc = "getJob"
    /\ calls' = Append(calls, Event("getJob", opts.JobID, TRUE))
    /\ \/ /\ Return("failed to get job")
          /\ UNCHANGED <<selectedJob, runID>>
       \/ \E j \in FetchedJobs :
            /\ selectedJob' = j
            /\ runID' = RunIDOfJob(j, runID)
            /\ pc' = AfterJob(opts)
            /\ progress' = FALSE
            /\ err' = err
    /\ UNCHANGED <<inputs, opts, run, jobs, runs, logVars, repVars, ioVars, entered>>

\* Lines 170-177.
GetRuns ==
    /\ pc = "GetRuns"
    /\ calls' = Append(calls, Event("GetRuns", "10", TRUE))
    /\ \/ /\ Return("failed to get runs")
          /\ UNCHANGED runs
       \/ /\ runs' = RecentRuns
          /\ pc' = "PromptForRun"
          /\ progress' = FALSE
          /\ err' = err
    /\ UNCHANGED <<inputs, opts, runID, selectedJob, run, jobs, logVars, repVars,
                   ioVars, entered>>

\* Lines 178-182.
PromptForRun ==
    /\ pc = "PromptForRun"
    /\ calls' = Append(calls, Event("PromptForRun", "", progress))
    /\ runs' = << >>
    /\ \/ /\ Return("prompt: interrupt")
          /\ UNCHANGED runID
       \/ \E i \in 1..Len(runs) :
            /\ runID' = ToString(runs[i])
            /\ pc' = "GetRun"
            /\ UNCHANGED <<err, progress>>
    /\ UNCHANGED <<inputs, opts, selectedJob, run, jobs, logVars, repVars,
                   ioVars, entered>>

\* Lines 184-189.
GetRun ==
    /\ pc = "GetRun"
    /\ calls' = Append(calls, Event("GetRun", runID, TRUE))
    /\ \/ /\ Return("failed to get run")
          /\ UNCHANGED run
       \/ \E k \in Kinds :
            /\ run' = [ID |-> RunOfID(runID), Status |-> k.Status,
                       Conclusion |-> k.Conclusion]
            /\ pc' = IF opts.Prompt THEN "GetJobs" ELSE "view"
            /\ progress' = FALSE
            /\ err' = err
    /\ UNCHANGED <<inputs, opts, runID, selectedJob, jobs, runs, logVars, repVars,
                   ioVars, entered>>

\* Lines 191-197.
GetJobs ==
    /\ pc = "GetJobs"
    /\ calls' = Append(calls, Event("GetJobs", ToString(run.ID), TRUE))
    /\ \/ /\ Return("get jobs error")
          /\ UNCHANGED jobs
       \/ \E ks \in JobKindLists :
            /\ jobs' = JobsOfRun(run, ks)
            /\ pc' = IF Len(ks) > 1 THEN "promptForJob" ELSE "view"
            /\ progress' = FALSE
            /\ err' = err
    /\ UNCHANGED <<inputs, opts, runID, selectedJob, run, runs, logVars, repVars,
                   ioVars, entered>>

\* Lines 198-203 and promptForJob (lines 421-444).
PromptForJob ==
    /\ pc = "promptForJob"
    /\ calls' = Append(calls, Event("promptForJob", "", progress))
    /\ \/ /\ Return("prompt: interrupt")
          /\ selectedJob' = NoJob
       \/ \E selected \in 0..Len(jobs) :
            /\ selectedJob' = IF selected > 0 THEN jobs[selected] ELSE NoJob
            /\ pc' = "view"
            /\ UNCHANGED <<err, progress>>
    /\ UNCHANGED <<inputs, opts, runID, run, jobs, runs, logVars, repVars,
                   ioVars, entered>>

\* Mutant: the selected job is not looked at when the log is asked for.
ViewModeJobIgnored(o, job) ==
    IF o.Web THEN "Browsing"
    ELSE IF o.Log THEN "StreamingRunLog"
    ELSE "Reporting"

\* Lines 206, 220, 248, 267: the branch runView takes once run and job are
\* settled.
ViewMode(o, job) ==
    IF o.Web THEN "Browsing"
    ELSE IF o.Log /\ job # NoJob THEN "StreamingJobLog"
    ELSE IF o.Log THEN "StreamingRunLog"
    ELSE "Reporting"

Writes(n, kind, spin) == [i \in 1..n |-> Event("Write", kind, spin)]

\* Mutant: the status is not checked.
LogReadyAlways(status) == TRUE

\* Lines 221 and 249: logs are there once the job or run has completed.
LogReady(status) == status = Completed

\* Mutant: StopPager is not deferred, the pager is left running.
PagedWritesPagerLeftRunning(n, spin) ==
    <<Event("StartPager", "ok", spin)>> \o Writes(n, "log", spin)

\* Lines 231-237 and 519-541: StartPager has succeeded, StopPager is
\* deferred, n writes go to IO.Out, and the function returns.
PagedWrites(n, spin) ==
    <<Event("StartPager", "ok", spin)>>
    \o Writes(n, "log", spin)
    \o <<Event("StopPager", "", spin)>>

\* The pager after the events es, when it was p before.
RECURSIVE PagerAfter(_, _)
PagerAfter(p, es) ==
    IF es = << >> THEN p
    ELSE PagerAfter(IF Head(es).op = "StartPager" /\ Head(es).arg = "ok" THEN "started"
                    ELSE IF Head(es).op = "StopPager" THEN "stopped"
                    ELSE p,
                    Tail(es))

\* Lines 206-216.
Browse ==
    /\ pc = "view"
    /\ ViewMode(opts, selectedJob) = "Browsing"
    /\ entered' = Append(entered, "Browsing")
    /\ LET url == IF selectedJob # NoJob
                  THEN "selectedJob.URL?check_suite_focus=true" ELSE "run.URL"
           n   == IF tty.stdoutTTY THEN 1 ELSE 0
       IN  /\ out' = out \o [i \in 1..n |-> <<"Opening ", url, " in your browser.">>]
           /\ calls' = calls \o Writes(n, "opening", progress)
                             \o <<Event("Browse", url, progress)>>
    /\ \E e \in {"nil", "browser error"} : Return(e)
    /\ UNCHANGED <<inputs, opts, locals, logVars, repVars, pager, errOut>>

\* Lines 218-229.
GetJobLog ==
    /\ pc = "view"
    /\ ViewMode(opts, selectedJob) = "StreamingJobLog"
    /\ entered' = Append(entered, "StreamingJobLog")
    /\ IF ~LogReady(selectedJob.Status)
       THEN /\ Return("job is still in progress; logs will be available when it is complete")
            /\ UNCHANGED <<calls, jobLog>>
       ELSE /\ calls' = Append(calls, Event("getJobLog", ToString(selectedJob.ID), TRUE))
            /\ \/ /\ \E e \in {"log not found", "log fetch error"} : Return(e)
                  /\ UNCHANGED jobLog
               \/ /\ jobLog' \in JobLogTexts
                  /\ pc' = "copyJobLog"
                  /\ progress' = FALSE
                  /\ err' = err
    /\ UNCHANGED <<inputs, opts, locals, runLogZip, rl, repVars, ioVars>>

\* The error of the finished job-log view (lines 241-245).
JobLogResult(o, job) ==
    IF o.ExitStatus /\ IsFailureState(job.Conclusion) THEN SilentError ELSE "nil"

\* Lines 231-245: StartPager, the deferred StopPager, io.Copy, the exit status.
\* A reader that fails has delivered k bytes before.
CopyJobLog ==
    /\ pc = "copyJobLog"
    /\ \/ /\ calls' = Append(calls, Event("StartPager", "error", progress))
          /\ Return("pager error")
          /\ UNCHANGED <<pager, out>>
       \/ \E k \in 0..Len(jobLog), copied \in BOOLEAN :
            /\ copied => k = Len(jobLog)
            /\ LET n      == IF k > 0 THEN 1 ELSE 0
                   events == PagedWrites(n, progress)
               IN  /\ out' = out \o [i \in 1..n |-> SubSeq(jobLog, 1, k)]
                   /\ calls' = calls \o events
                   /\ pager' = PagerAfter(pager, events)
            /\ Return(IF copied THEN JobLogResult(opts, selectedJob)
                      ELSE "failed to read log")
    /\ UNCHANGED <<inputs, opts, locals, logVars, repVars, errOut, entered>>

\* Lines 218, 248-257.
GetRunLog ==
    /\ pc = "view"
    /\ ViewMode(opts, selectedJob) = "StreamingRunLog"
    /\ entered' = Append(entered, "StreamingRunLog")
    /\ IF ~LogReady(run.Status)
       THEN /\ Return("run is still in progress; logs will be available when it is complete")
            /\ UNCHANGED <<calls, runLogZip>>
       ELSE /\ calls' = Append(calls, Event("getRunLog", ToString(run.ID), TRUE))
            /\ \/ /\ Return("failed to get run log")
                  /\ UNCHANGED runLogZip
               \/ /\ runLogZip' \in RunLogZips
                  /\ pc' = "readRunLog"
                  /\ progress' = FALSE
                  /\ err' = err
    /\ UNCHANGED <<inputs, opts, locals, jobLog, rl, repVars, ioVars>>

\* Lines 259-262.
ReadRunLog ==
    /\ pc = "readRunLog"
    /\ LET r == readRunLog(runLogZip)
       IN  /\ rl' = r.rl
           /\ IF r.err # "nil"
              THEN Return(r.err)
              ELSE pc' = "displayRunLog" /\ UNCHANGED <<err, progress>>
    /\ UNCHANGED <<inputs, opts, locals, jobLog, runLogZip, repVars, ioVars,
                   calls, entered>>

\* Line 264 and displayRunLog (lines 518-547).
DisplayRunLog ==
    /\ pc = "displayRunLog"
    /\ \/ /\ calls' = Append(calls, Event("StartPager", "error", progress))
          /\ Return("pager error")
          /\ UNCHANGED <<pager, out, rl>>
       \/ \E sorted \in SortedRunLogs(rl) :
            LET lines  == RunLogOutput(sorted)
                events == PagedWrites(Len(lines), progress)
            IN  /\ rl' = sorted
                /\ out' = out \o lines
                /\ calls' = calls \o events
                /\ pager' = PagerAfter(pager, events)
                /\ Return("nil")
    /\ UNCHANGED <<inputs, opts, locals, jobLog, runLogZip, repVars, errOut, entered>>

\* Lines 218, 267-275.
GetJobsReport ==
    /\ pc = "view"
    /\ ViewMode(opts, selectedJob) = "Reporting"
    /\ entered' = Append(entered, "Reporting")
    /\ IF selectedJob = NoJob /\ Len(jobs) = 0
       THEN /\ calls' = Append(calls, Event("GetJobs", ToString(run.ID), TRUE))
            /\ \/ /\ Return("failed to get jobs")
                  /\ UNCHANGED jobs
               \/ \E ks \in JobKindLists :
                    /\ jobs' = JobsOfRun(run, ks)
                    /\ pc' = "PullRequestForRun"
                    /\ progress' = FALSE
                    /\ err' = err
       ELSE /\ jobs' = IF selectedJob # NoJob THEN <<selectedJob>> ELSE jobs
            /\ pc' = "PullRequestForRun"
            /\ progress' = TRUE
            /\ UNCHANGED <<calls, err>>
    /\ UNCHANGED <<inputs, opts, runID, selectedJob, run, runs, logVars, repVars,
                   ioVars>>

\* Where the loop of lines 295-301 stands when i jobs have had their turn.
AnnotationsOrRender(js, i) == IF i < Len(js) THEN "GetAnnotations" ELSE "RenderReport"

\* Mutant: the error of the lookup is returned like any other.
PullRequestErrorReturned(e) == e

\* Lines 278-281: the error of the lookup is not returned, whatever it is.
PullRequestError(e) == "nil"

\* Lines 277-281: the number, empty when the lookup failed.
PRNumber(e, number) == IF e = "nil" THEN " #" \o ToString(number) ELSE ""

\* Lines 277-281: a failed lookup leaves the number empty.
PullRequestForRun ==
    /\ pc = "PullRequestForRun"
    /\ calls' = Append(calls, Event("PullRequestForRun", ToString(run.ID), progress))
    /\ \E e \in {"nil", "pull request lookup error"} :
         /\ prNumber' = PRNumber(e, 7)
         /\ IF PullRequestError(e) # "nil"
            THEN Return(PullRequestError(e))
            ELSE /\ pc' = IF selectedJob = NoJob THEN "ListArtifacts"
                          ELSE AnnotationsOrRender(jobs, jobIdx)
                 /\ UNCHANGED <<progress, err>>
    /\ UNCHANGED <<inputs, opts, locals, logVars, artifacts, annotations,
                   annotationErr, jobIdx, ioVars, entered>>

\* Lines 283-289.
ListArtifacts ==
    /\ pc = "ListArtifacts"
    /\ calls' = Append(calls, Event("ListArtifacts", ToString(run.ID), progress))
    /\ \/ /\ Return("failed to get artifacts")
          /\ UNCHANGED artifacts
       \/ /\ artifacts' \in ArtifactLists
          /\ pc' = AnnotationsOrRender(jobs, jobIdx)
          /\ UNCHANGED <<err, progress>>
    /\ UNCHANGED <<inputs, opts, locals, logVars, prNumber, annotations,
                   annotationErr, jobIdx, ioVars, entered>>

\* Mutant: the loop goes on to the next job after a failed fetch.
AfterAnnotationsNoBreak(js, i, e) == AnnotationsOrRender(js, i + 1)

\* Lines 295-299: where the loop goes after the fetch for job i + 1 returned
\* e; an error breaks out of it.
AfterAnnotations(js, i, e) ==
    IF e # "nil" THEN "RenderReport" ELSE AnnotationsOrRender(js, i + 1)

\* Lines 295-301: one turn of the loop, for the job after the jobIdx done.
GetAnnotations ==
    /\ pc = "GetAnnotations"
    /\ calls' = Append(calls, Event("GetAnnotations", ToString(jobs[jobIdx + 1].ID), progress))
    /\ jobIdx' = jobIdx + 1
    /\ \/ /\ annotationErr' = "annotation error"
          /\ pc' = AfterAnnotations(jobs, jobIdx, "annotation error")
          /\ UNCHANGED annotations
       \/ \E as \in AnnotationLists :
            /\ annotations' = annotations \o as
            /\ annotationErr' = "nil"
            /\ pc' = AfterAnnotations(jobs, jobIdx, "nil")
    /\ UNCHANGED <<inputs, opts, locals, logVars, prNumber, artifacts, progress,
                   ioVars, entered, err>>

\* Mutant: a failed run without jobs is reported like any other.
WorkflowFileIssueUnnoticed(r, js) == FALSE

\* Line 317: a run that failed before any job ran.
WorkflowFileIssue(r, js) == Len(js) = 0 /\ r.Conclusion = Failure

\* Lines 313-372: the writes of the report, one element per Fprint call.
ReportOutput(r, job, js, pr, arts, anns) ==
    <<<<"">>, <<"RenderRunHeader", pr>>, <<"">>>>
    \o IF WorkflowFileIssue(r, js)
       THEN <<<<"This run likely failed because of a workflow file issue.">>,
              <<"">>, <<"For more information, see: run.URL">>>>
       ELSE (IF job = NoJob THEN <<<<"JOBS">>, <<"RenderJobs">>>>
             ELSE <<<<"RenderJobs">>>>)
            \o (IF Len(anns) > 0
                THEN <<<<"">>, <<"ANNOTATIONS">>, <<"RenderAnnotations">>>>
                ELSE << >>)
            \o (IF job = NoJob
                THEN (IF Len(arts) > 0
                      THEN <<<<"">>, <<"ARTIFACTS">>>>
                           \o [i \in 1..Len(arts) |-> <<arts[i].Name>>]
                      ELSE << >>)
                     \o <<<<"">>,
                          <<"For more information about a job, try: gh run view --job=<job-id>">>,
                          <<"view this run on GitHub: run.URL">>>>
                ELSE <<<<"">>,
                       <<"To see the full job log, try: gh run view --log --job=", ToString(job.ID)>>,
                       <<"view this run on GitHub: run.URL">>>>)

\* Lines 325-328, 361-363, 369-374: the error of the finished report.
ReportResult(o, r, job, js) ==
    IF WorkflowFileIssue(r, js)
    THEN IF o.ExitStatus THEN SilentError ELSE "nil"
    ELSE IF job = NoJob
    THEN IF o.ExitStatus /\ IsFailureState(r.Conclusion) THEN SilentError ELSE "nil"
    ELSE IF o.ExitStatus /\ IsFailureState(job.Conclusion) THEN SilentError ELSE "nil"

\* Mutant: the report goes through the pager as the logs do.
ReportWritesPaged(n, spin) ==
    <<Event("StartPager", "ok", spin)>>
    \o Writes(n, "report", spin)
    \o <<Event("StopPager", "", spin)>>

\* Lines 309-372: n writes go to IO.Out as it is, no pager is started.
ReportWrites(n, spin) == Writes(n, "report", spin)

\* Lines 303-375.
RenderReport ==
    /\ pc = "RenderReport"
    /\ IF annotationErr # "nil"
       THEN /\ Return("failed to get annotations")
            /\ UNCHANGED <<out, calls, pager>>
       ELSE LET lines  == ReportOutput(run, selectedJob, jobs, prNumber,
                                       artifacts, annotations)
                events == ReportWrites(Len(lines), FALSE)
            IN  /\ out' = out \o lines
                /\ calls' = calls \o events
                /\ pager' = PagerAfter(pager, events)
                /\ Return(ReportResult(opts, run, selectedJob, jobs))
    /\ UNCHANGED <<inputs, opts, locals, logVars, repVars, errOut, entered>>

Next ==
    \/ RunE
    \/ Setup
    \/ GetJob
    \/ GetRuns
    \/ PromptForRun
    \/ GetRun
    \/ GetJobs
    \/ PromptForJob
    \/ Browse
    \/ GetJobLog
    \/ CopyJobLog
    \/ GetRunLog
    \/ ReadRunLog
    \/ DisplayRunLog
    \/ GetJobsReport
    \/ PullRequestForRun
    \/ ListArtifacts
    \/ GetAnnotations
    \/ RenderReport

Spec == Init /\ [][Next]_vars

\* ============================================================== properties
HasCall(op) == \E i \in 1..Len(calls) : calls[i].op = op
CallsOf(op) == {i \in 1..Len(calls) : calls[i].op = op}
HasWrite(kind) == \E i \in 1..Len(calls) : calls[i].op = "Write" /\ calls[i].arg = kind

\* The calls to collaborators: metadata and log fetches, the browser, prompts.
CollaboratorOps ==
    {"getJob", "GetRuns", "PromptForRun", "GetRun", "GetJobs", "promptForJob",
     "Browse", "getJobLog", "getRunLog", "PullRequestForRun", "ListArtifacts",
     "GetAnnotations"}

\* The command has settled run and job (it got past line 204).
ResolutionPCs ==
    {"RunE", "runView", "getJob", "GetRuns", "PromptForRun", "GetRun", "GetJobs",
     "promptForJob"}
ResolutionErrors ==
    {MissingTarget, WebAndLog, "failed to create http client",
     "failed to determine base repo", "failed to get job", "failed to get runs",
     "prompt: interrupt", "failed to get run", "get jobs error"}
TargetResolved == pc \notin ResolutionPCs /\ err \notin ResolutionErrors

\* C1: a command that has settled its target enters exactly one of the four
\* modes, for good: with --web the browser is opened and no log is fetched and
\* no report written; else with --log and a job selected the job log is the
\* only thing streamed; else with --log the run log; else the report.
C1_OneModeByFlags ==
    /\ Len(entered) <= 1
    /\ ~TargetResolved => entered = << >>
    /\ TargetResolved /\ pc # "view" =>
         /\ Len(entered) = 1
         /\ IF opts.Web
            THEN /\ entered[1] = "Browsing"
                 /\ Cardinality(CallsOf("Browse")) = 1
                 /\ ~HasCall("getJobLog") /\ ~HasCall("getRunLog")
                 /\ ~HasWrite("log") /\ ~HasWrite("report")
            ELSE IF opts.Log /\ selectedJob # NoJob
            THEN /\ entered[1] = "StreamingJobLog"
                 /\ ~HasCall("Browse") /\ ~HasCall("getRunLog")
                 /\ ~HasWrite("report")
            ELSE IF opts.Log
            THEN /\ entered[1] = "StreamingRunLog"
                 /\ ~HasCall("Browse") /\ ~HasCall("getJobLog")
                 /\ ~HasWrite("report")
            ELSE /\ entered[1] = "Reporting"
                 /\ ~HasCall("Browse") /\ ~HasCall("getJobLog")
                 /\ ~HasCall("getRunLog") /\ ~HasWrite("log")

\* A job picked at the prompt had its log streamed to the end.
C1_Witness ==
    /\ pc = "done" /\ err = "nil"
    /\ opts.Prompt /\ opts.Log /\ selectedJob # NoJob
    /\ entered = <<"StreamingJobLog">>
    /\ HasWrite("log")

\* C2: once the arguments are looked at, exactly one of four outcomes holds,
\* decided by (run ID given, job ID given, interactive): the missing-target
\* error, a target derived from the job, a prompted target, a direct target;
\* and nothing is ever prompted for when a run ID or a job ID was given.
C2_ResolutionTotalExclusive ==
    LET runGiven   == Len(args) > 0
        jobGiven   == opts.JobID # ""
        missing    == err = MissingTarget
        jobDerived == ~missing /\ opts.JobID # "" /\ opts.RunID = "" /\ ~opts.Prompt
        prompted   == ~missing /\ opts.Prompt /\ opts.JobID = "" /\ opts.RunID = ""
        direct     == ~missing /\ ~opts.Prompt /\ opts.JobID = "" /\ opts.RunID = args[1]
    IN  /\ pc # "RunE" =>
             /\ missing    <=> (~runGiven /\ ~jobGiven /\ ~tty.canPrompt)
             /\ jobDerived <=> jobGiven
             /\ prompted   <=> (~runGiven /\ ~jobGiven /\ tty.canPrompt)
             /\ direct     <=> (runGiven /\ ~jobGiven)
        /\ HasCall("getJob") => jobGiven
        /\ runGiven \/ jobGiven =>
             ~HasCall("GetRuns") /\ ~HasCall("PromptForRun") /\ ~HasCall("promptForJob")
        /\ \A i \in CallsOf("GetRun") :
             /\ runGiven /\ ~jobGiven => calls[i].arg = args[1]
             /\ ~runGiven /\ ~jobGiven => HasCall("PromptForRun")
             /\ jobGiven => HasCall("getJob")

\* A prompted run was fetched.
C2_Witness ==
    /\ Len(args) = 0 /\ opts.JobID = "" /\ tty.canPrompt
    /\ HasCall("PromptForRun") /\ HasCall("GetRun")
    /\ run.ID = 201

\* C3: when both --web and --log are set, or when there is no run ID, no job
\* ID and no interactive session, the command ends with a flag error and has
\* called no collaborator and written nothing to its output.
C3_FlagErrorsBeforeAnyCall ==
    /\ err \in {MissingTarget, WebAndLog} =>
         /\ pc = "done"
         /\ calls = << >>
         /\ out = << >>
    /\ pc # "RunE" /\ Len(args) = 0 /\ opts.JobID = "" /\ ~tty.canPrompt =>
         err = MissingTarget
    /\ pc # "RunE" /\ opts.Web /\ opts.Log =>
         err \in {MissingTarget, WebAndLog}

\* --web and --log together, with a run ID and a job ID given.
C3_Witness ==
    /\ err = WebAndLog
    /\ Len(args) > 0 /\ opts.JobID # ""

\* C4: with a job ID given, the run is fetched only after the job, by the run
\* ID of the fetched job (whatever run ID the user gave), the fetched job is
\* the selected job, and a failed job fetch ends the command with no run fetch.
C4_JobFetchDecidesRun ==
    opts.JobID # "" =>
      /\ \A i \in CallsOf("GetRun") :
           /\ \E j \in CallsOf("getJob") : j < i
           /\ selectedJob \in FetchedJobs
           /\ calls[i].arg = ToString(selectedJob.RunID)
      /\ \A j \in CallsOf("getJob") : calls[j].arg = opts.JobID
      /\ err = "failed to get job" => ~HasCall("GetRun") /\ pc = "done"
      /\ pc \notin {"RunE", "runView", "getJob"} /\ err # "failed to get job"
           /\ err \notin {WebAndLog, "failed to create http client",
                          "failed to determine base repo"}
           => selectedJob \in FetchedJobs /\ HasCall("getJob")

\* Run 123 and job 456 given, the job belongs to run 124, which was fetched.
C4_Witness ==
    /\ args = <<"123">> /\ opts.JobID = "456"
    /\ selectedJob.RunID = 124
    /\ run.ID = 124
    /\ \E i \in CallsOf("GetRun") : calls[i].arg = "124"

\* C5: in log mode a job or run that has not completed yields the not-ready
\* error: no log is fetched, the pager is not started, nothing is written.
NotReadyErrors ==
    {"job is still in progress; logs will be available when it is complete",
     "run is still in progress; logs will be available when it is complete"}

C5_LogGatedOnCompletion ==
    TargetResolved /\ pc # "view" /\ opts.Log /\ ~opts.Web =>
      /\ selectedJob # NoJob /\ selectedJob.Status # Completed =>
           /\ pc = "done"
           /\ err = "job is still in progress; logs will be available when it is complete"
           /\ ~HasCall("getJobLog") /\ ~HasCall("getRunLog")
           /\ ~HasCall("StartPager") /\ pager = "idle"
           /\ out = << >>
      /\ selectedJob = NoJob /\ run.Status # Completed =>
           /\ pc = "done"
           /\ err = "run is still in progress; logs will be available when it is complete"
           /\ ~HasCall("getJobLog") /\ ~HasCall("getRunLog")
           /\ ~HasCall("StartPager") /\ pager = "idle"
           /\ out = << >>
      /\ err \in NotReadyErrors =>
           IF selectedJob # NoJob THEN selectedJob.Status # Completed
           ELSE run.Status # Completed

\* The log of a run in progress was asked for.
C5_Witness ==
    /\ err = "run is still in progress; logs will be available when it is complete"
    /\ entered = <<"StreamingRunLog">>
    /\ run.Status = "in_progress"

\* The log of a job in progress, of a completed run, was asked for.
C5_WitnessJob ==
    /\ err = "job is still in progress; logs will be available when it is complete"
    /\ selectedJob.Status = "in_progress" /\ run.Status = Completed

\* ------------------------------------------------ the archive, as specified
\* Names <job>/<n>_<name>.txt, written out from their parts.
DecimalDigits == <<"0", "1", "2", "3", "4", "5", "6", "7", "8", "9">>

RECURSIVE Decimal(_)
Decimal(n) ==
    IF n < 10 THEN <<DecimalDigits[n + 1]>>
    ELSE Decimal(n \div 10) \o <<DecimalDigits[(n % 10) + 1]>>

StepLogName(jobName, n, stepName) ==
    jobName \o <<"/">> \o Decimal(n) \o <<"_">> \o stepName \o TxtExt

\* <<job, n, name>> with a job name, a non-negative order and a step name
\* free of underscores.
StepLogShapes == {<<"a">>, <<"b">>} \X (0..12) \X {<<"s">>, <<"t">>}

HasDirectory(name) == \E i \in 1..Len(name) : name[i] = "/"
IsStepLog(name) == HasDirectory(name) /\ HasSuffix(name, TxtExt)
\* Every such name, with its parts.
StepLogNames == {<<StepLogName(sh[1], sh[2], sh[3]), sh>> : sh \in StepLogShapes}

IsWellFormedName(name) == \E p \in StepLogNames : p[1] = name
ShapeOf(name) == (CHOOSE p \in StepLogNames : p[1] = name)[2]

StepLogs(files) == {i \in 1..Len(files) : IsStepLog(files[i].name)}
WellFormedArchive(files) ==
    \A i \in StepLogs(files) : IsWellFormedName(files[i].name)

RECURSIVE StepsOfJob(_, _)
StepsOfJob(files, jobName) ==
    IF files = << >> THEN << >>
    ELSE (IF IsStepLog(Head(files).name) /\ ShapeOf(Head(files).name)[1] = jobName
          THEN << [order |-> ShapeOf(Head(files).name)[2],
                   name  |-> ShapeOf(Head(files).name)[3],
                   logs  |-> Head(files).logs] >>
          ELSE << >>)
         \o StepsOfJob(Tail(files), jobName)

ExpectedRunLog(files) ==
    [jobName \in {ShapeOf(files[i].name)[1] : i \in StepLogs(files)} |->
        [name |-> jobName, steps |-> StepsOfJob(files, jobName)]]

\* C6: for an archive whose step-log entries (a directory and the .txt
\* extension) are all named <job>/<n>_<name>.txt, the parser succeeds and
\* returns one job per directory, holding one step (order n, name, payload)
\* per entry of that directory in archive order; the other entries add
\* nothing, so an archive without step logs yields the empty mapping.
C6_ParseBuildsHierarchy ==
    pc # "readRunLog" /\ runLogZip.valid /\ WellFormedArchive(runLogZip.files) =>
      /\ pc = "displayRunLog" \/ (pc = "done" /\ err \in {"nil", "pager error"})
      /\ pc = "displayRunLog" => rl = ExpectedRunLog(runLogZip.files)
      /\ DOMAIN rl = {ShapeOf(runLogZip.files[i].name)[1] : i \in StepLogs(runLogZip.files)}
      /\ StepLogs(runLogZip.files) = {} => DOMAIN rl = {}

\* Two steps of one job, the later order first, were parsed.
C6_Witness ==
    /\ pc = "displayRunLog"
    /\ Len(runLogZip.files) = 2
    /\ runLogZip.files[1].name = StepLogName(<<"a">>, 10, <<"t">>)
    /\ runLogZip.files[2].name = StepLogName(<<"a">>, 2, <<"s">>)
    /\ Len(rl[<<"a">>].steps) = 2

\* An archive of a top-level file and a file that is no text log was parsed.
C6_WitnessEmpty ==
    /\ pc = "displayRunLog"
    /\ Len(runLogZip.files) = 2
    /\ StepLogs(runLogZip.files) = {}
    /\ DOMAIN rl = {}

\* A step-log name the claim rejects: not exactly one underscore in the base
\* name, or an order token that is no integer numeral.
Numerals ==
    UNION {{Decimal(n), <<"-">> \o Decimal(n), <<"+">> \o Decimal(n)} : n \in 0..12}

IsNumeral(token) == token \in Numerals

IsMalformedName(name) ==
    /\ IsStepLog(name)
    /\ LET base  == SubSeq(name, LastIndexOf(name, "/") + 1, Len(name))
           under == IndexesOf(base, "_")
       IN  \/ Cardinality(under) # 1
           \/ ~IsNumeral(SubSeq(base, 1, Min(under) - 1))

\* C7: one step-log entry whose base name has no or several underscores, or
\* whose order token is no number, fails the whole parse with the invalid
\* step filename error, wherever it stands among the entries; the run-log
\* view returns that error, the pager is not started and no line is written.
C7_ParseAllOrNothing ==
    /\ pc # "readRunLog"
    /\ runLogZip.valid
    /\ \E i \in 1..Len(runLogZip.files) : IsMalformedName(runLogZip.files[i].name)
    => /\ pc = "done"
       /\ err = InvalidStepFilename
       /\ ~HasCall("StartPager") /\ pager = "idle"
       /\ ~HasWrite("log") /\ out = << >>

\* A well-formed entry with two lines came before the rejected one.
C7_Witness ==
    /\ err = InvalidStepFilename
    /\ Len(runLogZip.files) = 2
    /\ IsWellFormedName(runLogZip.files[1].name)
    /\ runLogZip.files[1].logs = <<"x", "\n", "y">>
    /\ IsMalformedName(runLogZip.files[2].name)
    /\ DOMAIN rl = {<<"a">>}

\* The lines of a log text: the pieces between "\n", a final piece without
\* terminator included when it is not empty.
InputLines(text) ==
    LET ps == StringsSplit(text, "\n")
    IN  IF ps[Len(ps)] = << >> THEN SubSeq(ps, 1, Len(ps) - 1) ELSE ps

\* The lines of one entry, each behind "<job>\t<step>\t".
EntryLines(e) ==
    LET sh    == ShapeOf(e.name)
        lines == InputLines(e.logs)
    IN  [k \in 1..Len(lines) |->
            sh[1] \o <<"\t">> \o sh[3] \o <<"\t">> \o lines[k] \o <<"\n">>]

\* The step logs of an archive in an order that is ascending by job name
\* and, within a job, by step order.
RenderOrders(files) ==
    LET m == Cardinality(StepLogs(files))
    IN  {q \in [1..m -> StepLogs(files)] :
           /\ \A a, b \in 1..m : a # b => q[a] # q[b]
           /\ \A a, b \in 1..m : a < b =>
                LET x == ShapeOf(files[q[a]].name)
                    y == ShapeOf(files[q[b]].name)
                IN  \/ StrLess(x[1], y[1])
                    \/ x[1] = y[1] /\ x[2] <= y[2]}

RECURSIVE LinesInOrder(_, _, _)
LinesInOrder(files, q, a) ==
    IF a > Len(q) THEN << >>
    ELSE EntryLines(files[q[a]]) \o LinesInOrder(files, q, a + 1)

RECURSIVE SumLines(_, _)
SumLines(files, I) ==
    IF I = {} THEN 0
    ELSE LET i == CHOOSE x \in I : TRUE
         IN  Len(InputLines(files[i].logs)) + SumLines(files, I \ {i})

C9_ExitStatusInEveryMode ==
    pc = "done" /\ Len(entered) = 1 /\ err \in {"nil", SilentError} =>
      (err = SilentError <=>
         /\ opts.ExitStatus
         /\ IsFailureState(IF selectedJob # NoJob THEN selectedJob.Conclusion
                           ELSE run.Conclusion))

\* C10: a log line is written only while the pager is started; a pager that
\* was started is stopped when the command has returned, whether the copy
\* succeeded or failed; when the pager fails to start the error is returned
\* and nothing was written.
C10_PagerAroundLog ==
    /\ \A i \in 1..Len(calls) :
         calls[i].op = "Write" /\ calls[i].arg = "log" =>
           \E j \in 1..(i - 1) :
             /\ calls[j].op = "StartPager" /\ calls[j].arg = "ok"
             /\ \A k \in j..i : calls[k].op # "StopPager"
    /\ pc = "done" =>
         /\ pager # "started"
         /\ \A j \in CallsOf("StartPager") :
              calls[j].arg = "ok" => \E k \in CallsOf("StopPager") : k > j
    /\ (\E j \in CallsOf("StartPager") : calls[j].arg = "error") =>
         /\ pc = "done" /\ err = "pager error"
         /\ out = << >> /\ ~HasWrite("log") /\ pager = "idle"
    /\ pc \in {"copyJobLog", "displayRunLog"} => out = << >> /\ pager = "idle"

\* The copy of a job log failed after the first bytes; the pager is stopped.
C10_Witness ==
    /\ entered = <<"StreamingJobLog">>
    /\ err = "failed to read log"
    /\ Len(out) = 1
    /\ pager = "stopped"

\* ------------------------------------------------------------- the report
\* The write at position i of calls comes after a successful StartPager with
\* no StopPager in between.
PagerStartedAt(i) ==
    \E j \in 1..(i - 1) :
      /\ calls[j].op = "StartPager" /\ calls[j].arg = "ok"
      /\ \A k \in j..i : calls[k].op # "StopPager"

\* C11 as claimed: the report is paged as the logs are; every report line is
\* written while the pager is started, and a pager that was started for the
\* report is stopped when the command has returned.
C11_ReportThroughPager ==
    /\ \A i \in 1..Len(calls) :
         calls[i].op = "Write" /\ calls[i].arg = "report" => PagerStartedAt(i)
    /\ pc = "done" /\ HasWrite("report") => pager = "stopped"

\* C11, amended: the Reporting path never acquires the pager; every line of
\* the report is written straight to the output with the pager not started,
\* and the pager has not been touched when the command returns. Only the two
\* log paths start (and stop) it.
C11_ReportUnpaged ==
    /\ \A i \in 1..Len(calls) :
         calls[i].op = "Write" /\ calls[i].arg = "report" => ~PagerStartedAt(i)
    /\ "Reporting" \in {entered[i] : i \in 1..Len(entered)} =>
         /\ pager = "idle"
         /\ ~HasCall("StartPager") /\ ~HasCall("StopPager")
    /\ HasCall("StartPager") =>
         entered \in {<<"StreamingJobLog">>, <<"StreamingRunLog">>}

\* The whole report of a run with artifacts and annotations was written.
C11_Witness ==
    /\ pc = "done" /\ err = "nil"
    /\ entered = <<"Reporting">>
    /\ selectedJob = NoJob
    /\ Len(jobs) = 2 /\ Len(annotations) > 0 /\ Len(artifacts) > 0
    /\ HasWrite("report") /\ Len(out) > 8
    /\ pager = "idle"

\* The positions of the annotation fetches in calls, in the order issued.
RECURSIVE Ascending(_)
Ascending(S) ==
    IF S = {} THEN << >> ELSE <<Min(S)>> \o Ascending(S \ {Min(S)})

AnnotationCalls == Ascending(CallsOf("GetAnnotations"))

\* C12: the k-th annotation fetch is for the k-th job of the list displayed;
\* once a fetch has failed no further one is issued (the failed one is the
\* last call the command makes), the command returns the annotation failure,
\* and the output is empty: no header, no line of the report.
C12_AnnotationFailureAborts ==
    /\ Len(AnnotationCalls) = jobIdx
    /\ jobIdx <= Len(jobs)
    /\ \A k \in 1..Len(AnnotationCalls) :
         calls[AnnotationCalls[k]].arg = ToString(jobs[k].ID)
    /\ annotationErr # "nil" =>
         /\ pc \in {"RenderReport", "done"}
         /\ calls[Len(calls)].op = "GetAnnotations"
         /\ calls[Len(calls)].arg = ToString(jobs[jobIdx].ID)
         /\ out = << >> /\ ~HasWrite("report")
         /\ pc = "done" => err = "failed to get annotations"

\* The fetch for the first of two jobs failed: the second was never asked for.
C12_Witness ==
    /\ pc = "done"
    /\ err = "failed to get annotations"
    /\ Len(jobs) = 2
    /\ Cardinality(CallsOf("GetAnnotations")) = 1
    /\ out = << >>

\* What was written, by the first word of each write.
Written == {out[i][1] : i \in 1..Len(out)}

WorkflowFileIssueMessage == "This run likely failed because of a workflow file issue."

\* C13: a report written for a failed run with no job to display holds the
\* workflow-file-issue message after the header and no job table, no
\* annotations, no artifacts and no hint, even when the run has artifacts; the
\* command returns success, or the silent error when --exit-status is set.
C13_WorkflowFileIssue ==
    HasWrite("report") /\ Len(jobs) = 0 /\ run.Conclusion = Failure
    => /\ Len(out) = 6
       /\ out[4] = <<WorkflowFileIssueMessage>>
       /\ out[6] = <<"For more information, see: run.URL">>
       /\ Written \cap {"JOBS", "RenderJobs", "ANNOTATIONS", "RenderAnnotations",
                        "ARTIFACTS", "artifact"} = {}
       /\ pc = "done"
       /\ err = IF opts.ExitStatus THEN SilentError ELSE "nil"

\* A failed run without jobs, but with an artifact, reported without
\* --exit-status.
C13_Witness ==
    /\ HasWrite("report")
    /\ Len(jobs) = 0 /\ run.Conclusion = Failure
    /\ Len(artifacts) = 1
    /\ ~opts.ExitStatus /\ err = "nil"

\* The collaborator whose failure each error reports.
FetchFailures ==
    [e \in {"failed to get job", "failed to get runs", "failed to get run",
            "get jobs error", "failed to get jobs", "log not found",
            "log fetch error", "failed to get run log", "failed to get artifacts",
            "failed to get annotations"} |->
       CASE e = "failed to get job" -> "getJob"
         [] e = "failed to get runs" -> "GetRuns"
         [] e = "failed to get run" -> "GetRun"
         [] e \in {"get jobs error", "failed to get jobs"} -> "GetJobs"
         [] e \in {"log not found", "log fetch error"} -> "getJobLog"
         [] e = "failed to get run log" -> "getRunLog"
         [] e = "failed to get artifacts" -> "ListArtifacts"
         [] e = "failed to get annotations" -> "GetAnnotations"]

\* The pull request lookup was made and found nothing.
PullRequestLookupFailed == HasCall("PullRequestForRun") /\ prNumber = ""

\* C14: a failed pull request lookup is never the command's error and never
\* its last call: the artifact fetch follows it when no job is selected, and
\* the annotation fetch for the first job follows that (or the lookup itself,
\* when a job is selected); a report that is written then carries a header
\* without number. Any other failed fetch is the last call the command makes
\* and the command returns its error.
C14_OnlyPullRequestFailureSwallowed ==
    /\ PullRequestLookupFailed =>
         LET i == Min(CallsOf("PullRequestForRun"))
         IN  /\ err \in {"pending", "nil", SilentError, "failed to get artifacts",
                         "failed to get annotations"}
             /\ pc = "PullRequestForRun" => FALSE
             /\ i = Len(calls) => pc \in {"ListArtifacts", "GetAnnotations"}
             /\ pc = "done" =>
                  /\ i < Len(calls)
                  /\ calls[i + 1].op = IF selectedJob = NoJob THEN "ListArtifacts"
                                       ELSE "GetAnnotations"
                  /\ (selectedJob = NoJob /\ err # "failed to get artifacts"
                        /\ Len(jobs) > 0)
                     => calls[i + 2].op = "GetAnnotations"
                  /\ err \in {"nil", SilentError} =>
                       /\ HasWrite("report")
                       /\ out[2] = <<"RenderRunHeader", "">>
                       /\ Len(AnnotationCalls) = Len(jobs)
    /\ pc = "done" /\ err \in DOMAIN FetchFailures =>
         /\ calls # << >>
         /\ calls[Len(calls)].op = FetchFailures[err]
    /\ annotationErr # "nil" /\ pc = "done" => err = "failed to get annotations"
    /\ Cardinality(CallsOf("PullRequestForRun")) <= 1

\* The lookup failed for a run with two jobs and an artifact; artifacts and
\* both jobs' annotations were fetched and the report written.
C14_Witness ==
    /\ pc = "done" /\ err = "nil"
    /\ PullRequestLookupFailed
    /\ selectedJob = NoJob
    /\ Len(jobs) = 2 /\ Len(artifacts) = 1
    /\ Cardinality(CallsOf("GetAnnotations")) = 2
    /\ out[2] = <<"RenderRunHeader", "">>

\* ------------------------------------------- step names, orders and ties
BaseName(name) == SubSeq(name, LastIndexOf(name, "/") + 1, Len(name))

\* The part of a base name before its first underscore (all of it when it
\* has none).
OrderToken(name) ==
    LET base  == BaseName(name)
        under == IndexesOf(base, "_")
    IN  IF under = {} THEN base ELSE SubSeq(base, 1, Min(under) - 1)

\* The part of a base name after its first underscore, without the extension.
RestOfName(name) ==
    LET base  == BaseName(name)
        under == IndexesOf(base, "_")
    IN  TrimSuffix(SubSeq(base, Min(under) + 1, Len(base)), TxtExt)

NonNegativeNumerals == {Decimal(n) : n \in 0..12}

\* <job>/<n>_<rest>.txt with n a non-negative integer and an underscore in
\* <rest>.
HasUnderscoreInStepName(name) ==
    /\ IsStepLog(name)
    /\ Cardinality(IndexesOf(BaseName(name), "_")) > 1
    /\ OrderToken(name) \in NonNegativeNumerals

\* The archive was parsed: its step logs are all of the <job>/<n>_<rest>.txt
\* kind, one of them at least with an underscore in <rest>.
ParsedUnderscoreArchive ==
    /\ pc # "readRunLog" /\ runLogZip.valid
    /\ \A i \in StepLogs(runLogZip.files) :
         \/ IsWellFormedName(runLogZip.files[i].name)
         \/ HasUnderscoreInStepName(runLogZip.files[i].name)
    /\ \E i \in StepLogs(runLogZip.files) :
         HasUnderscoreInStepName(runLogZip.files[i].name)

StepsIn(log) == UNION {{log[n].steps[k] : k \in 1..Len(log[n].steps)} : n \in DOMAIN log}

\* C15 as claimed: the base name is cut at the first underscore only; an
\* entry <job>/<n>_<rest>.txt with underscores in <rest> is parsed into a step
\* of order n named <rest>.
C15_SplitAtFirstUnderscore ==
    ParsedUnderscoreArchive =>
      /\ err # InvalidStepFilename
      /\ \A i \in StepLogs(runLogZip.files) :
           HasUnderscoreInStepName(runLogZip.files[i].name) =>
             \E st \in StepsIn(rl) :
               /\ Decimal(st.order) = OrderToken(runLogZip.files[i].name)
               /\ st.name = RestOfName(runLogZip.files[i].name)

\* C15, amended: the base name is cut at every underscore; an entry
\* <job>/<n>_<rest>.txt with one or more underscores in <rest> makes the parse
\* fail with the invalid step filename error, the run-log view returns it
\* with nothing written, and no step ever has an underscore in its name.
C15_SplitAtEveryUnderscore ==
    /\ ParsedUnderscoreArchive =>
         /\ pc = "done" /\ err = InvalidStepFilename
         /\ out = << >> /\ ~HasCall("StartPager")
    /\ \A st \in StepsIn(rl) : IndexesOf(st.name, "_") = {}

\* The one entry of the archive was a/2_s_t.txt.
C15_Witness ==
    /\ pc = "done" /\ err = InvalidStepFilename
    /\ Len(runLogZip.files) = 1
    /\ runLogZip.files[1].name = <<"a", "/", "2", "_", "s", "_", "t">> \o TxtExt
    /\ DOMAIN rl = {}

\* C16 as claimed: a step log whose order token is no non-negative integer,
\* -1 for one, fails the parse with the invalid step filename error, and no
\* step of the archive has a negative order.
C16_OrderNonNegative ==
    /\ (/\ pc # "readRunLog" /\ runLogZip.valid
        /\ \E i \in StepLogs(runLogZip.files) :
             OrderToken(runLogZip.files[i].name) \notin NonNegativeNumerals)
       => err = InvalidStepFilename
    /\ \A st \in StepsIn(rl) : st.order >= 0

\* Render orders that keep steps of equal order in archive order.
StableRenderOrders(files) ==
    {q \in RenderOrders(files) :
       \A a, b \in 1..Len(q) :
         (/\ a < b
          /\ ShapeOf(files[q[a]].name)[1] = ShapeOf(files[q[b]].name)[1]
          /\ ShapeOf(files[q[a]].name)[2] = ShapeOf(files[q[b]].name)[2])
         => q[a] < q[b]}

\* C17 as claimed: of two steps of one job with the same order, the one that
\* came first in the archive has its lines written first.
C17_StableStepOrder ==
    /\ pc = "done" /\ err = "nil" /\ entered = <<"StreamingRunLog">>
    /\ runLogZip.valid /\ WellFormedArchive(runLogZip.files)
    => \E q \in StableRenderOrders(runLogZip.files) :
         out = LinesInOrder(runLogZip.files, q, 1)

\* C18 as claimed: after the render the archive is what the parser built,
\* every job's steps in archive order.
C18_ArchiveUnchangedByRender ==
    /\ pc = "done" /\ err = "nil" /\ entered = <<"StreamingRunLog">>
    => rl = readRunLog(runLogZip).rl

\* ------------------------------------------------ the progress indicator
\* What the user sees or answers: prompts, the browser, the pager, output.
QuietOps == {"PromptForRun", "promptForJob", "Browse", "StartPager", "Write"}

\* C19: the indicator is not running once the command has returned, whatever
\* it returned, nor when a prompt is shown, the browser opened, the pager
\* started or a line written.
C19_ProgressIndicatorDiscipline ==
    /\ pc = "done" => ~progress
    /\ pc \in {"PromptForRun", "promptForJob", "copyJobLog", "displayRunLog"}
         => ~progress
    /\ \A i \in 1..Len(calls) : calls[i].op \in QuietOps => ~calls[i].spin

\* The artifact fetch failed while the indicator started at line 218 was
\* still running: the jobs were known from the prompt.
C19_Witness ==
    /\ pc = "done" /\ err = "failed to get artifacts"
    /\ opts.Prompt /\ Len(jobs) > 0
    /\ calls[Len(calls)].op = "ListArtifacts" /\ calls[Len(calls)].spin
    /\ ~progress

\* C20 as claimed: the jobs of the run are fetched at most once, the run
\* exactly once when a target was resolved.
C20_JobsFetchedOnce ==
    /\ Cardinality(CallsOf("GetJobs")) <= 1
    /\ Cardinality(CallsOf("GetRun")) <= 1
    /\ TargetResolved => Cardinality(CallsOf("GetRun")) = 1

====
